---- MODULE Spec2Model ----
(***************************************************************************)
(* PgPool (src/index.js): a facade over a generic-pool 3.x engine          *)
(* (genericPool.createPool, src/index.js:123) and a retry-as-promised      *)
(* connection factory (src/index.js:75-119).                               *)
(*                                                                         *)
(* The engine's bookkeeping (_allObjects, _availableObjects,               *)
(* _resourceLoans, _factoryCreateOperations, _waitingClientsQueue,         *)
(* _draining) is the state the facade's size/available/pending getters     *)
(* read, so it is modelled with the engine's own names.  Every action is   *)
(* one run-to-completion turn of the event loop: a facade call together    *)
(* with everything the engine does synchronously inside it, or one         *)
(* asynchronous completion (a connect attempt settling, an acquire timer   *)
(* firing, client.end calling back).                                       *)
(***************************************************************************)
EXTENDS Integers, Sequences, FiniteSets, Bags, TLC

\* ---- bounds of the model ----
MaxMax == 1            \* largest poolOptions.max explored
MaxRequests == 3       \* acquire()/query() calls per behaviour
MaxDestroyed == 1      \* successful destroy() calls per behaviour
MaxPriorityRange == 2  \* largest poolOptions.priorityRange explored

\* ---- program constants ----
MaxCreateAttempts == 3 \* if (createAttempts > 3)
RetryMax == 10         \* retry(..., { max: 10 })

VARIABLES
  config,                   \* this.poolOptions as the engine normalises them
  host,                     \* pgOptions.host: "AVAILABLE" or "UNAVAILABLE_HOST"
  created,                  \* created[id]: what factory.create resolved with
  allObjects,               \* pool._allObjects
  availableObjects,         \* pool._availableObjects (deque, fifo)
  resourceLoans,            \* pool._resourceLoans (keys)
  factoryCreateOperations,  \* pool._factoryCreateOperations (bag of retry states)
  factoryDestroyOperations, \* pool._factoryDestroyOperations
  waitingClientsQueue,      \* pool._waitingClientsQueue (one queue per priority)
  requests,                 \* every acquire()/query() call: the priority it
                            \* asked for (kept while it waits), what it
                            \* settled with, how often, and how often query
                            \* released
  draining,                 \* pool._draining
  drainOp,                  \* progress of the promise returned by drain()
  lastOp                    \* the turn that produced this state

vars == <<config, host, created, allObjects, availableObjects, resourceLoans,
          factoryCreateOperations, factoryDestroyOperations,
          waitingClientsQueue, requests, draining, drainOp, lastOp>>

Min2(a, b) == IF a < b THEN a ELSE b

\* Sequencing: x is evaluated once and Op is applied to its value.
Then(x, Op(_)) == CHOOSE r \in {Op(v) : v \in {x}} : TRUE

\* The engine state as one record, so that the engine's nested calls
\* (release -> _dispatch -> _createResource ...) compose as functions.
Cur ==
  [created |-> created, allObjects |-> allObjects,
   availableObjects |-> availableObjects, resourceLoans |-> resourceLoans,
   factoryCreateOperations |-> factoryCreateOperations,
   factoryDestroyOperations |-> factoryDestroyOperations,
   waitingClientsQueue |-> waitingClientsQueue, requests |-> requests,
   draining |-> draining, drainOp |-> drainOp]

Assign(s) ==
  /\ created' = s.created
  /\ allObjects' = s.allObjects
  /\ availableObjects' = s.availableObjects
  /\ resourceLoans' = s.resourceLoans
  /\ factoryCreateOperations' = s.factoryCreateOperations
  /\ factoryDestroyOperations' = s.factoryDestroyOperations
  /\ waitingClientsQueue' = s.waitingClientsQueue
  /\ requests' = s.requests
  /\ draining' = s.draining
  /\ drainOp' = s.drainOp
  /\ UNCHANGED <<config, host>>

\* ---- the getters of the facade ----
\* A size that counts only the resources that exist.
getPoolSize_ExistingOnly(s) == Cardinality(s.allObjects)

getPoolSize(s) == Cardinality(s.allObjects) + BagCardinality(s.factoryCreateOperations)
availableCount(s) == Len(s.availableObjects)

RECURSIVE QueueLength(_, _)
QueueLength(q, p) == IF p > Len(q) THEN 0 ELSE Len(q[p]) + QueueLength(q, p + 1)

pendingCount(s) == QueueLength(s.waitingClientsQueue, 1)

status(s) == [size |-> getPoolSize(s), available |-> availableCount(s),
              pending |-> pendingCount(s)]

\* ---- factory.create (src/index.js:76-100) ----
\* One invocation of the function handed to retry(): createAttempts++, then
\* either the terminal Error is RESOLVED (not rejected), or create(pgOptions)
\* starts a connect.
RetryCallback_OffByOne(op) ==
  LET n == op.createAttempts + 1 IN
  IF n >= MaxCreateAttempts
    THEN [outcome |-> "resolved", createAttempts |-> 0,
          connectCalls |-> op.connectCalls]
    ELSE [outcome |-> "connecting", createAttempts |-> n,
          connectCalls |-> op.connectCalls + 1]

RetryCallback(op) ==
  LET n == op.createAttempts + 1 IN
  IF n > MaxCreateAttempts
    THEN [outcome |-> "resolved", createAttempts |-> 0,
          connectCalls |-> op.connectCalls]
    ELSE [outcome |-> "connecting", createAttempts |-> n,
          connectCalls |-> op.connectCalls + 1]

\* retry() calls the function once at once, so a creation in flight always
\* has a connect outstanding.
FactoryCreate ==
  LET r == RetryCallback([createAttempts |-> 0, connectCalls |-> 0]) IN
  [createAttempts |-> r.createAttempts, connectCalls |-> r.connectCalls]

\* create(pgOptions): whether client.connect can call back without an error.
ConnectOutcomes == IF host = "UNAVAILABLE_HOST" THEN {FALSE} ELSE {TRUE, FALSE}

\* ---- the engine behind this.pool ----
AddPooledResourceToAvailableObjects(s, id) ==
  [s EXCEPT !.availableObjects = Append(@, id)]

\* pool._createResource(), n times over: each starts one factory.create().
AddCreates(s, n) ==
  IF n <= 0 THEN s
  ELSE [s EXCEPT !.factoryCreateOperations =
                   @ (+) [e \in {FactoryCreate} |-> n]]

\* pool._ensureMinimum()
EnsureMinimum(s0) ==
  LET F(s) == IF s.draining THEN s
              ELSE AddCreates(s, config.min - getPoolSize(s))
  IN Then(s0, F)

\* A spare capacity that forgets the creations already in flight.
spareResourceCapacity_IgnoresCreating(s) == config.max - Cardinality(s.allObjects)

spareResourceCapacity(s) == config.max - getPoolSize(s)

potentiallyAllocableResourceCount(s) ==
  Len(s.availableObjects) + BagCardinality(s.factoryCreateOperations)

\* PriorityQueue.enqueue: priorities outside the range go to the last slot.
Slot(priority) ==
  IF priority < 0 \/ priority >= config.priorityRange
    THEN config.priorityRange ELSE priority + 1

Enqueue(q, req, priority) == [q EXCEPT ![Slot(priority)] = Append(@, req)]

\* A queue that serves the lowest priority in use first.
FirstSlot_LowestFirst(q) ==
  CHOOSE p \in 1..Len(q) : Len(q[p]) > 0 /\ \A r \in (p + 1)..Len(q) : Len(q[r]) = 0

\* PriorityQueue.dequeue: the first slot in use, slot 1 being priority 0.
FirstSlot(q) ==
  CHOOSE p \in 1..Len(q) : Len(q[p]) > 0 /\ \A r \in 1..(p - 1) : Len(q[r]) = 0

\* PriorityQueue.tail: the last request of the lowest priority in use.
QueueTail(q) ==
  LET p == CHOOSE x \in 1..Len(q) :
             Len(q[x]) > 0 /\ \A r \in (x + 1)..Len(q) : Len(q[r]) = 0
  IN q[p][Len(q[p])]

InSeq(sq, x) == \E i \in 1..Len(sq) : sq[i] = x

RemoveFromSeq(sq, x) == SelectSeq(sq, LAMBDA e : e # x)

\* A timeout that leaves the rejected request linked in its slot.
RemoveFromQueue_KeepsEntry(q, req) == q

\* Queue's timeout rejection handler: unlink the request from its slot.
RemoveFromQueue(q, req) == [p \in 1..Len(q) |-> RemoveFromSeq(q[p], req)]

\* What the caller's side of the promise does with the value the engine
\* resolves an acquire with: PgPool.prototype.acquire throws an Error value,
\* PgPool.prototype.query calls client.query on it (a TypeError on an Error).
FacadeThen(kind, value) ==
  IF kind = "acquire"
    THEN (IF value = "Error" THEN "CONN_FAILED" ELSE "FULFILLED")
    ELSE (IF value = "Error" THEN "TypeError" ELSE "QUERYING")

\* ResourceRequest.resolve(obj)
ResolveRequest(s, req, id) ==
  [s EXCEPT !.requests[req].state =
              FacadeThen(s.requests[req].kind, s.created[id]),
            !.requests[req].priority = 0,
            !.requests[req].obj = id,
            !.requests[req].settled = @ + 1]

\* pool._dispatchPooledResourceToNextWaitingClient(pooledResource)
DispatchPooledResourceToNextWaitingClient(s0, id) ==
  LET F(s) ==
        IF pendingCount(s) = 0
          THEN AddPooledResourceToAvailableObjects(s, id)
        ELSE
          LET p == FirstSlot(s.waitingClientsQueue)
              req == Head(s.waitingClientsQueue[p])
              s1 == [s EXCEPT !.waitingClientsQueue[p] = Tail(@)]
          IN IF s.requests[req].state # "PENDING"
               THEN AddPooledResourceToAvailableObjects(s1, id)
               ELSE ResolveRequest([s1 EXCEPT !.resourceLoans = @ \cup {id}],
                                   req, id)
  IN Then(s0, F)

\* A dispatch step that hands nothing out.
DispatchResource_Skips(s0) == s0

\* pool._dispatchResource()
DispatchResource(s0) ==
  LET F(s) ==
        IF Len(s.availableObjects) < 1 THEN s
        ELSE DispatchPooledResourceToNextWaitingClient(
               [s EXCEPT !.availableObjects = Tail(@)], Head(s.availableObjects))
  IN Then(s0, F)

\* for (i = 0; n > i; i++) this._dispatchResource()
RECURSIVE DispatchResources(_, _)
DispatchResources(s0, n) ==
  LET F(s) == IF n <= 0 THEN s ELSE DispatchResources(DispatchResource(s), n - 1)
  IN Then(s0, F)

\* A dispatch that creates for every waiting client, whatever the capacity.
Dispatch_IgnoresCapacity(s0) ==
  LET F(s) ==
        LET numWaitingClients == pendingCount(s) IN
        IF numWaitingClients < 1 THEN s
        ELSE
          LET resourceShortfall ==
                numWaitingClients - potentiallyAllocableResourceCount(s)
              G(s1) == DispatchResources(
                         s1, Min2(Len(s1.availableObjects), numWaitingClients))
          IN Then(AddCreates(s, resourceShortfall), G)
  IN Then(s0, F)

\* pool._dispatch(), testOnBorrow off
Dispatch(s0) ==
  LET F(s) ==
        LET numWaitingClients == pendingCount(s) IN
        IF numWaitingClients < 1 THEN s
        ELSE
          LET resourceShortfall ==
                numWaitingClients - potentiallyAllocableResourceCount(s)
              G(s1) == DispatchResources(
                         s1, Min2(Len(s1.availableObjects), numWaitingClients))
          IN Then(AddCreates(s, Min2(spareResourceCapacity(s), resourceShortfall)),
                  G)
  IN Then(s0, F)

\* A teardown that does not top the floor up again.
DestroyPooledResource_NoRefill(s, id) ==
  [s EXCEPT !.allObjects = @ \ {id}, !.factoryDestroyOperations = @ \cup {id}]

\* pool._destroy(pooledResource): factory.destroy is called at once; the
\* resource leaves _allObjects and the floor is topped up.
DestroyPooledResource(s, id) ==
  EnsureMinimum([s EXCEPT !.allObjects = @ \ {id},
                          !.factoryDestroyOperations = @ \cup {id}])

\* The promise chain of pool.drain(): first the tail of the waiting queue
\* settles, then every loan outstanding at that moment is returned.
DrainProgress(s0) ==
  LET F(s) == IF s.drainOp.state = "requests"
                 /\ s.requests[s.drainOp.tail].state # "PENDING"
                THEN [s EXCEPT !.drainOp.state = "loans",
                               !.drainOp.loans = s.resourceLoans]
                ELSE s
      G(s) == IF s.drainOp.state = "loans" /\ s.drainOp.loans = {}
                THEN [s EXCEPT !.drainOp.state = "resolved"]
                ELSE s
  IN Then(Then(s0, F), G)

\* A return that leaves the loan on the books.
ResolveLoan_KeepsLoan(s, id) == [s EXCEPT !.drainOp.loans = @ \ {id}]

\* loan.resolve() on release/destroy
ResolveLoan(s, id) ==
  [s EXCEPT !.resourceLoans = @ \ {id}, !.drainOp.loans = @ \ {id}]

\* ---- construction (src/index.js:66-133) ----
Configs ==
  {c \in [min : 0..MaxMax, max : 1..MaxMax, acquireTimeoutMillis : {0, 1},
          priorityRange : 1..MaxPriorityRange] : c.min <= c.max}

Hosts == {"AVAILABLE", "UNAVAILABLE_HOST"}

NoDrain == [state |-> "none", tail |-> 0, loans |-> {}, members |-> {}]

Empty ==
  [created |-> <<>>, allObjects |-> {}, availableObjects |-> <<>>,
   resourceLoans |-> {}, factoryCreateOperations |-> EmptyBag,
   factoryDestroyOperations |-> {},
   waitingClientsQueue |-> [p \in 1..config.priorityRange |-> <<>>],
   requests |-> <<>>, draining |-> FALSE, drainOp |-> NoDrain]

\* new PgPool(options): createPool starts the pool, which warms it to min.
Init ==
  /\ config \in Configs
  /\ host \in Hosts
  /\ LET s == EnsureMinimum(Empty) IN
       /\ created = s.created
       /\ allObjects = s.allObjects
       /\ availableObjects = s.availableObjects
       /\ resourceLoans = s.resourceLoans
       /\ factoryCreateOperations = s.factoryCreateOperations
       /\ factoryDestroyOperations = s.factoryDestroyOperations
       /\ waitingClientsQueue = s.waitingClientsQueue
       /\ requests = s.requests
       /\ draining = s.draining
       /\ drainOp = s.drainOp
  /\ lastOp = [op |-> "new", arg |-> 0, calls |-> 0, outcome |-> "ok"]

\* An acquire that does not look at the draining flag.
PoolAcquire_WhileDraining(s, kind, priority) ==
  LET req == Len(s.requests) + 1 IN
  Dispatch([s EXCEPT
    !.requests = Append(@, [kind |-> kind, priority |-> priority,
                            state |-> "PENDING", obj |-> 0, settled |-> 0,
                            released |-> 0]),
    !.waitingClientsQueue = Enqueue(@, req, priority)])

\* ---- this.pool.acquire(priority) ----
PoolAcquire(s, kind, priority) ==
  LET req == Len(s.requests) + 1 IN
  IF s.draining
    THEN [s EXCEPT !.requests = Append(@, [kind |-> kind, priority |-> 0,
                                           state |-> "DrainingError",
                                           obj |-> 0, settled |-> 1,
                                           released |-> 0])]
    ELSE Dispatch([s EXCEPT
           !.requests = Append(@, [kind |-> kind, priority |-> priority,
                                   state |-> "PENDING", obj |-> 0,
                                   settled |-> 0, released |-> 0]),
           !.waitingClientsQueue = Enqueue(@, req, priority)])

\* A release that takes back any member of the pool, on loan or not.
PoolRelease_NoLoanCheck(s, x) ==
  IF x \notin s.allObjects THEN s
  ELSE Dispatch(AddPooledResourceToAvailableObjects(ResolveLoan(s, x), x))

\* ---- this.pool.release(resource) ----
PoolRelease(s, x) ==
  IF x \notin s.resourceLoans THEN s
  ELSE Dispatch(AddPooledResourceToAvailableObjects(ResolveLoan(s, x), x))

\* ---- this.pool.destroy(resource) ----
PoolDestroy(s, x) ==
  IF x \notin s.resourceLoans THEN s
  ELSE Dispatch(DestroyPooledResource(ResolveLoan(s, x), x))

\* "Resource not currently part of this pool"
Membership(s, x) == IF x \in s.resourceLoans THEN "resolved" ELSE "MembershipError"

\* ---- this.pool.drain(callback): the engine's drain() takes no argument,
\* so the callback that would call clear() is never invoked.
PoolDrain(s) ==
  [s EXCEPT !.draining = TRUE,
            !.drainOp = IF pendingCount(s) > 0
                          THEN [state |-> "requests",
                                tail |-> QueueTail(s.waitingClientsQueue),
                                loans |-> {}, members |-> s.allObjects]
                          ELSE [state |-> "loans", tail |-> 0,
                                loans |-> s.resourceLoans,
                                members |-> s.allObjects]]

\* The resources a caller can name: 0 stands for undefined or a foreign
\* object, the others are what its acquire() calls settled with (an Error
\* thrown by the facade is the very object the engine has on loan).
CallerKnown ==
  {0} \cup {requests[i].obj : i \in {j \in 1..Len(requests) :
                                       requests[j].kind = "acquire"}}

\* The priorities callers pass; poolOptions.priorityRange may be smaller.
Priorities == 0..(MaxPriorityRange - 1)

\* PgPool.prototype.acquire(priority)
Acquire(priority) ==
  /\ Len(requests) < MaxRequests
  /\ \E s \in {DrainProgress(PoolAcquire(Cur, "acquire", priority))} :
       /\ Assign(s)
       /\ lastOp' = [op |-> "acquire", arg |-> 0, calls |-> 0,
                     outcome |-> s.requests[Len(s.requests)].state]

\* PgPool.prototype.query(queryString), up to client.query being called
Query ==
  /\ Len(requests) < MaxRequests
  /\ \E s \in {DrainProgress(PoolAcquire(Cur, "query", 0))} :
       /\ Assign(s)
       /\ lastOp' = [op |-> "query", arg |-> 0, calls |-> 0,
                     outcome |-> s.requests[Len(s.requests)].state]

\* PgPool.prototype.query: client.query settles, the client is released and
\* the result or the error is passed on.
QuerySettles(req, ok) ==
  /\ req \in 1..Len(requests)
  /\ requests[req].state = "QUERYING"
  /\ \E s1 \in {PoolRelease(Cur, requests[req].obj)} :
        /\ Assign(DrainProgress(
             [s1 EXCEPT !.requests[req].state =
                          IF ok THEN "RESULT" ELSE "QueryError",
                        !.requests[req].released =
                          IF Membership(Cur, requests[req].obj) = "resolved"
                            THEN @ + 1 ELSE @]))
        /\ lastOp' = [op |-> "querySettles", arg |-> 0, calls |-> 0,
                      outcome |-> Membership(Cur, requests[req].obj)]

\* PgPool.prototype.release(client)
Release(x) ==
  /\ x \in CallerKnown
  /\ Assign(DrainProgress(PoolRelease(Cur, x)))
  /\ lastOp' = [op |-> "release", arg |-> x, calls |-> 0,
                outcome |-> Membership(Cur, x)]

Destroyed(s) == (1..Len(s.created)) \ s.allObjects

\* PgPool.prototype.destroy(client)
Destroy(x) ==
  /\ x \in CallerKnown
  /\ Cardinality(Destroyed(Cur)) < MaxDestroyed
  /\ Assign(DrainProgress(PoolDestroy(Cur, x)))
  /\ lastOp' = [op |-> "destroy", arg |-> x, calls |-> 0,
                outcome |-> Membership(Cur, x)]

\* PgPool.prototype.drain()
Drain ==
  /\ drainOp.state = "none"
  /\ Assign(DrainProgress(PoolDrain(Cur)))
  /\ lastOp' = [op |-> "drain", arg |-> 0, calls |-> 0, outcome |-> "called"]

\* The engine's continuation of factory.create() resolving with a value.
CreateResolved(s, kind) ==
  LET id == Len(s.created) + 1 IN
  Dispatch(AddPooledResourceToAvailableObjects(
    [s EXCEPT !.created = Append(@, kind), !.allObjects = @ \cup {id}], id))

\* One connect of a creation in flight settles: client.connect calls back
\* (src/index.js:47-53).  A failure makes retry() call the function again,
\* unless retry's own ceiling is reached.
ConnectSettles(op, ok) ==
  /\ op \in BagToSet(factoryCreateOperations)
  /\ ok \in ConnectOutcomes
  /\ \E s \in {[Cur EXCEPT !.factoryCreateOperations = @ (-) SetToBag({op})]},
        r \in {RetryCallback(op)} :
        IF ok
          THEN /\ Assign(DrainProgress(CreateResolved(s, "Client")))
               /\ lastOp' = [op |-> "create", arg |-> 0, calls |-> op.connectCalls,
                             outcome |-> "Client"]
        ELSE IF op.createAttempts >= RetryMax
          THEN /\ Assign(DrainProgress(Dispatch(s)))
               /\ lastOp' = [op |-> "create", arg |-> 0, calls |-> op.connectCalls,
                             outcome |-> "factoryCreateError"]
        ELSE IF r.outcome = "resolved"
          THEN /\ Assign(DrainProgress(CreateResolved(s, "Error")))
               /\ lastOp' = [op |-> "create", arg |-> 0, calls |-> r.connectCalls,
                             outcome |-> "Error"]
        ELSE /\ Assign([s EXCEPT !.factoryCreateOperations = @ (+) SetToBag(
                          {[createAttempts |-> r.createAttempts,
                            connectCalls |-> r.connectCalls]})])
             /\ lastOp' = [op |-> "create", arg |-> 0, calls |-> r.connectCalls,
                           outcome |-> "retry"]

\* The acquireTimeoutMillis timer of a waiting request fires: the request is
\* rejected with a TimeoutError and unlinked from the waiting queue.  All
\* timers have the same delay, so they fire in the order of the calls.
Timeout(req) ==
  /\ config.acquireTimeoutMillis > 0
  /\ req \in 1..Len(requests)
  /\ requests[req].state = "PENDING"
  /\ \A older \in 1..(req - 1) : requests[older].state # "PENDING"
  /\ Assign(DrainProgress(
       [Cur EXCEPT !.requests[req].state = "TimeoutError",
                   !.requests[req].priority = 0,
                   !.requests[req].settled = @ + 1,
                   !.waitingClientsQueue = RemoveFromQueue(@, req)]))
  /\ lastOp' = [op |-> "timeout", arg |-> 0, calls |-> 0, outcome |-> "TimeoutError"]

\* factory.destroy (src/index.js:101-118): client.end(true, cb) calls back
\* and the promise resolves.  When client.end throws (an Error value has no
\* end) the catch only logs and the promise stays pending.
FactoryDestroyResolves(id) ==
  /\ id \in factoryDestroyOperations
  /\ created[id] = "Client"
  /\ Assign([Cur EXCEPT !.factoryDestroyOperations = @ \ {id}])
  /\ lastOp' = [op |-> "destroyed", arg |-> 0, calls |-> 0, outcome |-> "resolved"]

Next ==
  \/ \E priority \in Priorities : Acquire(priority)
  \/ Query
  \/ \E req \in 1..MaxRequests, ok \in BOOLEAN : QuerySettles(req, ok)
  \/ \E x \in CallerKnown : Release(x)
  \/ \E x \in CallerKnown : Destroy(x)
  \/ Drain
  \/ \E op \in BagToSet(factoryCreateOperations), ok \in BOOLEAN :
       ConnectSettles(op, ok)
  \/ \E req \in 1..MaxRequests : Timeout(req)
  \/ \E id \in factoryDestroyOperations : FactoryDestroyResolves(id)

Spec == Init /\ [][Next]_vars

\* The event loop runs every completion that is due: connects settle,
\* timers fire, queries return, closed clients call back.  Callers are under
\* no obligation.
\* Progress does not depend on how many priority slots the queue has, so the
\* progress properties are explored with the library's default priorityRange.
FairInit == Init /\ config.priorityRange = 1

FairSpec ==
  /\ FairInit
  /\ [][Next]_vars
  /\ WF_vars(\E op \in BagToSet(factoryCreateOperations), ok \in BOOLEAN :
               ConnectSettles(op, ok))
  /\ WF_vars(\E req \in 1..MaxRequests : Timeout(req))
  /\ WF_vars(\E req \in 1..MaxRequests, ok \in BOOLEAN : QuerySettles(req, ok))
  /\ WF_vars(\E id \in factoryDestroyOperations : FactoryDestroyResolves(id))

TypeOK ==
  /\ config \in Configs
  /\ allObjects \subseteq 1..Len(created)
  /\ resourceLoans \subseteq allObjects

\* ---- the claims ----
Requests == 1..Len(requests)

InQueue(req) ==
  \E p \in 1..Len(waitingClientsQueue) :
    \E i \in 1..Len(waitingClientsQueue[p]) : waitingClientsQueue[p][i] = req

\* C1: in every reachable state 0 <= available <= size <= max, where size
\* counts idle, active and being-created resources.
C1_CapacityInvariant ==
  /\ 0 <= availableCount(Cur)
  /\ availableCount(Cur) <= getPoolSize(Cur)
  /\ getPoolSize(Cur) <= config.max
  /\ getPoolSize(Cur) =
       Len(availableObjects) + Cardinality(resourceLoans)
         + BagCardinality(factoryCreateOperations)

\* min-warming and callers' acquires meet: the pool is full of creations in
\* flight and two callers wait for them.
C1_Witness ==
  /\ config.min >= 1
  /\ BagCardinality(factoryCreateOperations) = config.max
  /\ pendingCount(Cur) >= 2

Waiting(req) == req \in Requests /\ requests[req].state = "PENDING"

\* C3: on a permanently unreachable host every acquire eventually settles
\* with a failure, whatever max and without an acquire timeout.
C3_EveryAcquireSettles ==
  \A req \in 1..MaxRequests :
    (host = "UNAVAILABLE_HOST" /\ Waiting(req)) ~> ~Waiting(req)

Settled == {"FULFILLED", "CONN_FAILED", "TimeoutError"}

C5_QueuedAtCapacity ==
  [][/\ (lastOp'.op = "acquire" /\ ~draining
           /\ getPoolSize(Cur) = config.max /\ availableCount(Cur) = 0)
        => /\ lastOp'.outcome = "PENDING"
           /\ pendingCount(Cur)' = pendingCount(Cur) + 1
           /\ getPoolSize(Cur)' = getPoolSize(Cur)
           /\ availableCount(Cur)' = availableCount(Cur)
     /\ (lastOp'.op = "release" /\ lastOp'.outcome = "resolved"
           /\ pendingCount(Cur) > 0)
        => pendingCount(Cur)' = pendingCount(Cur) - 1
     /\ lastOp'.op = "timeout"
        => pendingCount(Cur)' = pendingCount(Cur) - 1
    ]_vars

\* min = 0, max = 1: the first resource is held and a second acquire has
\* just been queued.
C5_Witness ==
  /\ config.min = 0 /\ config.max = 1
  /\ lastOp.op = "acquire" /\ lastOp.outcome = "PENDING"
  /\ \E req \in Requests : requests[req].state = "FULFILLED"
                             /\ requests[req].obj \in resourceLoans
  /\ status(Cur) = [size |-> 1, available |-> 0, pending |-> 1]

\* The resources a caller legitimately holds: clients on loan.
ActiveClients == {id \in resourceLoans : created[id] = "Client"}

EngineUnchanged ==
  UNCHANGED <<created, allObjects, availableObjects, resourceLoans,
              factoryCreateOperations, factoryDestroyOperations,
              waitingClientsQueue, requests, draining, drainOp>>

\* C6: release(x) succeeds only for a client that is Active in this pool;
\* with no argument, a foreign resource, the outcome of a failed acquire or
\* an already released resource it is rejected with "Resource not currently
\* part of this pool" and changes nothing.
C6_ReleaseOnlyActive ==
  [][lastOp'.op = "release" =>
       IF lastOp'.arg \in ActiveClients
         THEN lastOp'.outcome = "resolved"
         ELSE lastOp'.outcome = "MembershipError" /\ EngineUnchanged
    ]_vars

QuerySettled == {"RESULT", "QueryError", "TypeError"}

\* C7: a query that was given a resource has released it exactly once by the
\* time its own outcome settles, so no resource stays Active on account of a
\* settled query.
C7_QueryAlwaysReleases ==
  \A req \in Requests :
    requests[req].kind = "query" /\ requests[req].state \in QuerySettled
      => requests[req].released = 1

\* C8 as stated: destroy of a held resource takes one off size at once and
\* removes it from the idle and active sets, and a pool left below min gets
\* back to size >= min and available >= min on its own.
C8_DestroyDropsSize ==
  /\ [][lastOp'.op = "destroy" /\ lastOp'.outcome = "resolved"
          => /\ getPoolSize(Cur)' = getPoolSize(Cur) - 1
             /\ lastOp'.arg \notin allObjects'
       ]_vars
  /\ (lastOp.op = "destroy" /\ lastOp.outcome = "resolved")
       ~> (getPoolSize(Cur) >= config.min /\ availableCount(Cur) >= config.min)

\* C8 amended: destroy of a held resource removes it at once from the idle
\* and active sets, taking one off the resources that exist; size, which also
\* counts creations in flight, never falls below min unless drain() was
\* called, because the replacements are started inside the call; they
\* complete on their own, so that the resources that exist number at least
\* min again.
C8_DestroyRemovesAndRefills ==
  /\ [][lastOp'.op = "destroy" /\ lastOp'.outcome = "resolved"
          => /\ Cardinality(allObjects') = Cardinality(allObjects) - 1
             /\ lastOp'.arg \notin allObjects'
             /\ lastOp'.arg \notin resourceLoans'
             /\ ~InSeq(availableObjects', lastOp'.arg)
             /\ getPoolSize(Cur)' >= getPoolSize(Cur) - 1
       ]_vars
  /\ [](~draining => getPoolSize(Cur) >= config.min)
  /\ (lastOp.op = "destroy" /\ lastOp.outcome = "resolved" /\ ~draining)
       ~> (draining \/ Cardinality(allObjects) >= config.min)

\* A held resource was destroyed on a pool at its floor: the replacement is
\* being created and size is still min.
C8_Witness ==
  /\ lastOp.op = "destroy" /\ lastOp.outcome = "resolved"
  /\ ~draining
  /\ config.min >= 1
  /\ Cardinality(allObjects) < config.min
  /\ getPoolSize(Cur) = config.min

\* C9: when drain()'s promise resolves on a warmed-up pool with nothing
\* Active (none waiting, none checked out, none being created, at least min
\* resources), available = size = min.
C9_DrainLeavesFloor ==
  [][(drainOp.state # "resolved" /\ drainOp'.state = "resolved"
        /\ pendingCount(Cur) = 0 /\ resourceLoans = {}
        /\ BagCardinality(factoryCreateOperations') = 0
        /\ Cardinality(allObjects') >= config.min
        /\ resourceLoans' = {})
       => /\ availableCount(Cur)' = config.min
          /\ getPoolSize(Cur)' = config.min
    ]_vars

\* C10: by the time drain() has completed, every resource that was in the
\* pool when it was called has been handed to factory.destroy and has left
\* the pool.
C10_DrainRemovesAll ==
  drainOp.state = "resolved" => drainOp.members \cap allObjects = {}

\* C11: drain() does not complete while a resource is still Active; at the
\* step in which its promise resolves no resource is on loan, and nothing
\* that is being torn down is in a caller's hands.
C11_DrainWaitsForActive ==
  /\ [][drainOp.state # "resolved" /\ drainOp'.state = "resolved"
          => resourceLoans' = {}]_vars
  /\ [](factoryDestroyOperations \cap resourceLoans = {})

\* C12: once drain() has been called every new acquire fails: it is rejected
\* in the call itself, is never queued and is never granted a resource, be
\* it an idle one or one created later.
C12_NoAcquireAfterDrain ==
  [][/\ draining /\ Len(requests') > Len(requests)
          => /\ requests'[Len(requests')].state = "DrainingError"
             /\ requests'[Len(requests')].obj = 0
             /\ \A p \in 1..Len(waitingClientsQueue') :
                  ~InSeq(waitingClientsQueue'[p], Len(requests'))
             /\ resourceLoans' = resourceLoans
             /\ factoryCreateOperations' = factoryCreateOperations
     /\ \A req \in Requests :
          requests[req].state = "DrainingError" =>
            requests'[req] = requests[req] /\ ~InQueue(req)'
    ]_vars

\* An acquire was refused on a draining pool although a resource was idle.
C12_Witness ==
  /\ lastOp.op = "acquire" /\ lastOp.outcome = "DrainingError"
  /\ draining
  /\ availableCount(Cur) >= 1
  /\ requests[Len(requests)].obj = 0

\* C13: status() read right after construction, before any creation has
\* completed, reports size == min, available == 0 and pending == 0: the
\* resources being created count in size and not in available.
C13_StatusAfterConstruction ==
  lastOp.op = "new" =>
    /\ status(Cur) = [size |-> config.min, available |-> 0, pending |-> 0]
    /\ BagCardinality(factoryCreateOperations) = config.min
    /\ allObjects = {}

\* A pool was constructed with a floor and its creations are in flight.
C13_Witness ==
  /\ lastOp.op = "new"
  /\ config.min >= 1
  /\ getPoolSize(Cur) = config.min
  /\ availableCount(Cur) = 0

\* The resources checked out: the engine's loans (pool.borrowed).
activeCount(s) == Cardinality(s.resourceLoans)

creatingCount(s) == BagCardinality(s.factoryCreateOperations)

\* C14 as stated: at every observable point available + activeCount == size.
C14_AvailablePlusActive ==
  availableCount(Cur) + activeCount(Cur) = getPoolSize(Cur)

\* C14 amended: at every observable point available + activeCount + the
\* number of resources being created == size, and every resource that exists
\* is idle or checked out; available + activeCount == size holds exactly when
\* no creation is in flight.
C14_AvailableActiveCreating ==
  /\ availableCount(Cur) + activeCount(Cur) + creatingCount(Cur) = getPoolSize(Cur)
  /\ availableCount(Cur) + activeCount(Cur) = Cardinality(allObjects)
  /\ C14_AvailablePlusActive <=> creatingCount(Cur) = 0

\* A caller's acquire has started a creation: size counts it, available and
\* active do not.
C14_Witness ==
  /\ lastOp.op = "acquire" /\ lastOp.outcome = "PENDING"
  /\ creatingCount(Cur) = 1
  /\ getPoolSize(Cur) = availableCount(Cur) + activeCount(Cur) + 1

\* C15: a resource whose creation ended in CONN_FAILED is discarded: no
\* entry for it is in the pool, idle or active, so neither size nor available
\* counts it and its slot is free for a later creation.
C15_FailedCreationDiscarded ==
  \A id \in 1..Len(created) :
    created[id] = "Error" =>
      /\ id \notin allObjects
      /\ id \notin resourceLoans
      /\ ~InSeq(availableObjects, id)

SlotOf(req) == CHOOSE p \in 1..Len(waitingClientsQueue) :
                 InSeq(waitingClientsQueue[p], req)

\* The request a release of x has served: it waited before and holds x after.
Served(req, x) ==
  /\ Waiting(req)
  /\ requests'[req].obj = x
  /\ requests'[req].state # "PENDING"
  /\ x \in resourceLoans'

\* C17 as stated: a resource released while requests are pending goes
\* straight to a pending request, available unchanged, and that request is
\* the one of highest priority (0 is the highest), the earliest among equals;
\* released with nobody pending it becomes idle.
C17_ReleaseServesHighestPriority ==
  [][lastOp'.op = "release" /\ lastOp'.outcome = "resolved" =>
       IF pendingCount(Cur) > 0
         THEN /\ availableCount(Cur)' = availableCount(Cur)
              /\ \E req \in Requests :
                   /\ Served(req, lastOp'.arg)
                   /\ \A r \in Requests \ {req} :
                        Waiting(r) =>
                          /\ requests'[r].state = "PENDING"
                          /\ \/ requests[r].priority > requests[req].priority
                             \/ /\ requests[r].priority = requests[req].priority
                                /\ r > req
         ELSE /\ availableObjects' = Append(availableObjects, lastOp'.arg)
              /\ lastOp'.arg \notin resourceLoans'
    ]_vars

\* C17 amended: priorities are those of the configured range; a priority
\* outside 0..priorityRange-1 counts as the lowest, and with the default
\* priorityRange of 1 every request has the same priority.
C17_ReleaseServesQueueOrder ==
  [][lastOp'.op = "release" /\ lastOp'.outcome = "resolved" =>
       IF pendingCount(Cur) > 0
         THEN /\ availableCount(Cur)' = availableCount(Cur)
              /\ \E req \in Requests :
                   /\ Served(req, lastOp'.arg)
                   /\ \A r \in Requests \ {req} :
                        Waiting(r) =>
                          /\ requests'[r].state = "PENDING"
                          /\ \/ Slot(requests[r].priority) > Slot(requests[req].priority)
                             \/ /\ Slot(requests[r].priority) = Slot(requests[req].priority)
                                /\ r > req
         ELSE /\ availableObjects' = Append(availableObjects, lastOp'.arg)
              /\ lastOp'.arg \notin resourceLoans'
    ]_vars

\* A release has served a later request of higher priority while an earlier
\* one of lower priority goes on waiting, and nothing became idle.
C17_Witness ==
  /\ lastOp.op = "release" /\ lastOp.outcome = "resolved"
  /\ availableCount(Cur) = 0
  /\ \E req \in Requests, r \in Requests :
       /\ r < req
       /\ Waiting(r) /\ SlotOf(r) = 2
       /\ requests[req].obj = lastOp.arg
       /\ lastOp.arg \in resourceLoans

\* The request is handed its resource in this step.
GivenNow(req) ==
  /\ req \in 1..Len(requests')
  /\ requests'[req].obj # 0
  /\ req > Len(requests) \/ requests[req].obj = 0

\* C18: no resource is idle and active at once or idle twice, and a resource
\* is given to a request only when nobody has it on loan or in the very step
\* that returns it; one step gives one resource to one request only.
C18_ExclusiveOwnership ==
  /\ [](/\ \A id \in resourceLoans : ~InSeq(availableObjects, id)
        /\ \A i, j \in 1..Len(availableObjects) :
             availableObjects[i] = availableObjects[j] => i = j
        /\ \A i \in 1..Len(availableObjects) : availableObjects[i] \in allObjects
        /\ resourceLoans \subseteq allObjects)
  /\ [][\A req \in 1..Len(requests') :
          GivenNow(req) =>
            /\ requests'[req].obj \in resourceLoans'
            /\ requests'[req].obj \in resourceLoans =>
                 /\ lastOp'.op \in {"release", "querySettles"}
                 /\ lastOp'.outcome = "resolved"
                 /\ lastOp'.op = "release" => lastOp'.arg = requests'[req].obj
            /\ \A other \in 1..Len(requests') :
                 GivenNow(other) /\ requests'[other].obj = requests'[req].obj
                   => other = req
       ]_vars

\* A client that one caller had and returned is now in another caller's hands.
C18_Witness ==
  \E a, b \in Requests :
    /\ a < b
    /\ requests[a].obj = requests[b].obj
    /\ requests[b].obj \in ActiveClients
    /\ lastOp.op = "release"

\* C19: every teardown handed to factory.destroy settles: whatever the
\* resource and whatever its close does, the promise eventually resolves, so
\* that no teardown stays outstanding.
C19_FactoryDestroySettles ==
  (factoryDestroyOperations # {}) ~> (factoryDestroyOperations = {})

\* C20: a query whose acquire ended in the factory's terminal failure is
\* rejected with CONN_FAILED, as a direct acquire is, does not run on the
\* failed resource and leaves nothing checked out.
C20_QueryReportsConnFailed ==
  \A req \in Requests :
    (/\ requests[req].kind = "query"
     /\ requests[req].obj # 0
     /\ created[requests[req].obj] = "Error")
      => /\ requests[req].state = "CONN_FAILED"
         /\ requests[req].state # "QUERYING"
         /\ requests[req].obj \notin resourceLoans

====
